---- MODULE Spec2Model ----
(***************************************************************************)
(* Real-time shape synchronisation of the PowerSync whiteboard.            *)
(*                                                                         *)
(* Server  : back-end/src/index.js  (Socket.IO intent handlers, lines      *)
(*           81-173) and back-end/src/routes/boards.js (REST autosave);     *)
(*           back-end/src/models/Board.js (schema, owner-scoped router).   *)
(* Client  : front-end/src/routes/BoardCanvas.tsx (first component,        *)
(*           lines 119-1411).                                              *)
(*                                                                         *)
(* JavaScript values are modelled as follows.  An object is a function     *)
(* from its own keys to values; a missing or falsy property of an intent   *)
(* payload is the placeholder that the handler's truthiness test rejects   *)
(* ("" for ids, Nil for objects).  A board name is a sequence of           *)
(* one-character strings tagged with its typeof.                           *)
(*                                                                         *)
(* Fields whose name starts with "g" on messages, and the variables       *)
(* `last`, `auto` and `obs`, are history (ghost) information: no handler   *)
(* reads them.                                                             *)
(*                                                                         *)
(* Spec     : arbitrary shape intents against the server and two peers.    *)
(* SpecFan  : every intent type, sockets joining the room.                 *)
(* SpecEdit : two editors making edit gestures on one board.               *)
(* SpecSave : one editor, time passing, the debounced autosave.            *)
(* SpecScene: an update by one editor, then a delete by the other, with    *)
(*            the autosave of both.                                        *)
(* SpecName : board renames.                                               *)
(* SpecJoin : sockets joining, once or repeatedly, while facts flow.       *)
(* SpecQuit : sockets disconnecting while intents are handled.             *)
(* SpecGone : intents addressed to a board after its deletion.             *)
(* SpecLeave: leaving or deleting the board with an autosave pending.      *)
(* SpecMissing: intents and autosaves addressed to a board that is gone.   *)
(* SpecLost : two clients drawing at once, with their autosaves.           *)
(* SpecView : a client that opens the board and only views it.             *)
(* SpecOpen : a client opening the board while another socket edits.       *)
(* SpecDrag : a client dragging a shape that another changes or deletes.   *)
(***************************************************************************)
EXTENDS Integers, Sequences, FiniteSets, TLC

VARIABLES
    store,      \* MongoDB collection: board id -> board document
    rooms,      \* Socket.IO adapter: room id -> set of joined sockets
    c2s,        \* per socket: intents emitted by the client, not yet handled
    s2c,        \* per socket: facts emitted by the server, not yet handled
    dbq,        \* handlers suspended in `await Board.updateOne`, op not applied
    awaiting,   \* handlers whose op completed, promise not yet resumed
    shapes,     \* per client: React state `shapes`
    drag,       \* per client: isDraggingRef / draggedShapeRef / mutatedDuringDragRef
    timers,     \* per client: pending setTimeout callbacks of the shapes autosave
    http,       \* PUT /api/boards/:id/shapes requests in flight (equal requests
                \* are one element: the route is idempotent)
    auto,       \* history, per client: time since `shapes` was last set, autosave
                \* requests issued since then, and whether the last change
                \* came less than DebounceMs after the one before (burst = 2)
    obs,        \* history, per board: time since the last edit gesture, store
                \* writes since then, the shape-update that arrived last, and
                \* the ids a shape-create has stored and no shape-delete removed,
                \* the clients that skipped a fact about the shape they were
                \* dragging, and those whose dragged shape a fact has deleted
    online,     \* the sockets that are connected
    fetch,      \* per client: the GET /api/boards/:id of its init effect
    sent,       \* number of intents emitted so far (bounded)
    failed,     \* number of store operations that failed so far (bounded)
    last        \* history: the step just taken, with the pre-state it needs

vars == <<store, rooms, c2s, s2c, dbq, awaiting, shapes, drag, timers, http, auto, obs,
          online, fetch, sent, failed, last>>

-----------------------------------------------------------------------------
(* Bounds *)

MaxIntents == 2
MaxFail == 1

\* setTimeout(..., 500) of the autosave effect
DebounceMs == 500

\* granularity of the clock
TickMs == DebounceMs \div 2

Sessions == {"A", "B", "C"}
\* b1 is the board the clients have open, b2 another board of the collection
BoardIds == {"b1", "b2"}

-----------------------------------------------------------------------------
(* JavaScript values *)

Nil == [absent |-> TRUE]
NoProps == [k \in {} |-> 0]
Undef == "undefined"

Str(cs) == [t |-> "string", v |-> cs]
NotStr == [t |-> "number", v |-> <<"7">>]

IdOf(e) == IF "id" \in DOMAIN e THEN e.id ELSE Undef

Ids(list) == {IdOf(list[i]) : i \in 1..Len(list)}

Count(list, id) == Cardinality({i \in 1..Len(list) : IdOf(list[i]) = id})

-----------------------------------------------------------------------------
(* Shapes: the discriminated union of BoardCanvas.tsx lines 26-76 *)

RectTypes == {"rect", "ellipse", "diamond", "circle", "triangle", "text",
              "cylinder", "cloud", "callout", "starburst"}
LineTypes == {"line", "arrow", "arrowDouble", "orthogonal"}

RectLike == {"id", "type", "x", "y", "w", "h", "stroke", "strokeWidth"}
LineLike == {"id", "type", "x1", "y1", "x2", "y2", "stroke", "strokeWidth"}
TextShape == RectLike \cup {"text", "fontSize", "fontFamily", "color"}
Freehand == {"id", "type", "points", "stroke", "strokeWidth", "bbox"}

\* s is a value of the TypeScript type Shape: a known variant carrying every
\* required field of its kind.
IsShape(s) ==
    /\ "type" \in DOMAIN s
    /\ \/ s.type \in RectTypes \ {"text"} /\ RectLike \subseteq DOMAIN s
       \/ s.type = "text" /\ TextShape \subseteq DOMAIN s
       \/ s.type \in LineTypes /\ LineLike \subseteq DOMAIN s
       \/ s.type = "freehand" /\ Freehand \subseteq DOMAIN s

R1 == [id |-> "s1", type |-> "rect", x |-> 10, y |-> 10, w |-> 50, h |-> 50,
       stroke |-> "#111111", strokeWidth |-> 2]
L2 == [id |-> "s2", type |-> "line", x1 |-> 0, y1 |-> 0, x2 |-> 5, y2 |-> 5,
       stroke |-> "#111111", strokeWidth |-> 2]
BadKind == [id |-> "s2", type |-> "blob", x |-> 1, y |-> 1, w |-> 1, h |-> 1,
            stroke |-> "#111111", strokeWidth |-> 2]
BadRect == [id |-> "s1", type |-> "rect", x |-> 10]

BadShapes == {BadKind, BadRect}

PropsPool == {NoProps, [x |-> 20], [x |-> 30], [y |-> 7, fill |-> "red"], [id |-> "s2"]}

DefaultName == <<"Untitled", " ", "document">>
NamePool == {Str(<<" ", "P", " ">>), Str(<<" ">>), NotStr}

-----------------------------------------------------------------------------
(* Wire messages *)

Intent(type, boardId, shape, shapeId, props, name) ==
    [type |-> type, boardId |-> boardId, shape |-> shape, shapeId |-> shapeId,
     props |-> props, name |-> name]

NoName == [t |-> "undefined", v |-> <<>>]

JoinBoard(b) == Intent("join-board", b, Nil, "", Nil, NoName)
ShapeCreate(b, sh) == Intent("shape-create", b, sh, "", Nil, NoName)
ShapeUpdate(b, id, props) == Intent("shape-update", b, Nil, id, props, NoName)
ShapeDelete(b, id) == Intent("shape-delete", b, Nil, id, Nil, NoName)
BoardRename(b, n) == Intent("board-rename", b, Nil, "", Nil, n)

\* gsrc: the socket whose intent produced the fact; ghit: how many stored
\* shapes the intent's shapeId matched when the store applied it (-1 when the
\* store applied nothing: the write failed or was never issued).
Fact(type, shape, shapeId, props, name, gsrc, ghit) ==
    [type |-> type, shape |-> shape, shapeId |-> shapeId, props |-> props,
     name |-> name, gsrc |-> gsrc, ghit |-> ghit]

-----------------------------------------------------------------------------
(* MongoDB update operators as used by index.js *)

\* { $push: { shapes: shape } }
Push(list, shape) == Append(list, shape)

SetKey(e, k, v) == [j \in DOMAIN e \cup {k} |-> IF j = k THEN v ELSE e[j]]

\* a $set of the whole element, { 'shapes.$[elem]': props }, which drops the
\* keys that props does not name
SetWholeElement(e, props, keys) == SetKey(props, "id", IdOf(e))

\* the $set document built by Object.keys(props).forEach(...), applied to one
\* array element
RECURSIVE SetPaths(_, _, _)
SetPaths(e, props, keys) ==
    IF keys = {} THEN e
    ELSE LET k == CHOOSE j \in keys : TRUE
         IN SetPaths(SetKey(e, k, props[k]), props, keys \ {k})

\* an update that inserts the props as a shape when no element matches (upsert)
SetOrInsert(list, shapeId, props) ==
    IF shapeId \in Ids(list)
    THEN [i \in 1..Len(list) |->
            IF IdOf(list[i]) = shapeId THEN SetPaths(list[i], props, DOMAIN props)
            ELSE list[i]]
    ELSE Append(list, SetKey(props, "id", shapeId))

\* { $set: set }, { arrayFilters: [{ 'elem.id': shapeId }] }
SetMatching(list, shapeId, props) ==
    [i \in 1..Len(list) |->
        IF IdOf(list[i]) = shapeId THEN SetPaths(list[i], props, DOMAIN props)
        ELSE list[i]]

\* a $pull whose condition matches every element, { $pull: { shapes: {} } }
PullEvery(list, shapeId) == <<>>

\* { $pull: { shapes: { id: shapeId } } }
Pull(list, shapeId) == SelectSeq(list, LAMBDA e : IdOf(e) # shapeId)

IsSpace(c) == c = " "

\* String.prototype.trim
RECURSIVE TrimLeft(_)
TrimLeft(cs) == IF cs # <<>> /\ IsSpace(Head(cs)) THEN TrimLeft(Tail(cs)) ELSE cs

RECURSIVE TrimRight(_)
TrimRight(cs) ==
    IF cs # <<>> /\ IsSpace(cs[Len(cs)]) THEN TrimRight(SubSeq(cs, 1, Len(cs) - 1))
    ELSE cs

\* String.prototype.trimStart
TrimStart(cs) == TrimLeft(cs)

Trim(cs) == TrimRight(TrimLeft(cs))

\* data.name.trim() || 'Untitled document'
RenameValue(name) == IF Trim(name.v) = <<>> THEN DefaultName ELSE Trim(name.v)

-----------------------------------------------------------------------------
(* Socket handlers of BoardCanvas.tsx (lines 194-218) as list transformers *)

\* { ...s, ...props }
Spread(s, props) ==
    [k \in DOMAIN s \cup DOMAIN props |-> IF k \in DOMAIN props THEN props[k] ELSE s[k]]

\* [...prev.filter((s) => s.id !== payload.shape.id), payload.shape]
CreatedList(prev, shape) ==
    Append(SelectSeq(prev, LAMBDA e : IdOf(e) # IdOf(shape)), shape)

\* prev.map((s) => (s.id === payload.shapeId ? { ...s, ...props } : s))
UpdatedList(prev, shapeId, props) ==
    [i \in 1..Len(prev) |->
        IF IdOf(prev[i]) = shapeId THEN Spread(prev[i], props) ELSE prev[i]]

\* a listener that leaves the list as it is
DeletedNone(prev, shapeId) == prev

\* prev.filter((s) => s.id !== payload.shapeId)
DeletedList(prev, shapeId) == SelectSeq(prev, LAMBDA e : IdOf(e) # shapeId)

NotDragging == [on |-> FALSE, shape |-> Nil, mutated |-> FALSE]

\* isDraggingRef.current && draggedShapeRef.current?.id === id
DraggingThat(d, id) == d.on /\ d.shape # Nil /\ IdOf(d.shape) = id

-----------------------------------------------------------------------------
(* Helpers *)

RemoveAt(q, i) == SubSeq(q, 1, i - 1) \o SubSeq(q, i + 1, Len(q))

\* an update with { upsert: true } finds a document whatever the collection holds
FoundOrInserted(b) == b \in BoardIds

Found(b) == b \in BoardIds /\ store[b].exists

\* adapter fan-out: append the fact to the inbox of every socket in `to`
EmitTo(to, fact) == [r \in Sessions |-> IF r \in to THEN Append(s2c[r], fact) ELSE s2c[r]]

\* a broadcast that does not leave out the sender
SocketToRoomAll(s, members) == members

\* socket.to(boardId).emit(...): the sockets of the room except the sender
SocketToRoom(s, members) == members \ {s}

\* io.to(boardId).emit(...): every socket of the room
IoToRoom(s, b) == rooms[b]

InboxLens == [r \in Sessions |-> Len(s2c[r])]

Recv(s, type) == c2s[s] # <<>> /\ Head(c2s[s]).type = type

cliVars == <<shapes, drag, timers, auto>>
srvVars == <<store, rooms, dbq, awaiting>>

-----------------------------------------------------------------------------
(* Server: io.on('connection') handlers, index.js lines 81-173 *)

\* socket.on('join-board')
OnJoinBoard(s) ==
    /\ Recv(s, "join-board")
    /\ LET m == Head(c2s[s])
           b == m.boardId
           joined == [rooms EXCEPT ![b] = @ \cup {s}]
       IN /\ rooms' = joined
          /\ s2c' = EmitTo(SocketToRoom(s, joined[b]),
                           Fact("user-joined", Nil, "", Nil, NoName, s, 0))
          /\ last' = [k |-> "join", who |-> s, room |-> rooms[b], lens |-> InboxLens]
    /\ c2s' = [c2s EXCEPT ![s] = Tail(@)]
    /\ UNCHANGED <<store, dbq, awaiting, cliVars, sent, failed, http, online, fetch>>

\* the early return of a handler whose guard rejects the payload
Dropped(s) ==
    /\ c2s' = [c2s EXCEPT ![s] = Tail(@)]
    /\ last' = [k |-> "drop", who |-> s, m |-> Head(c2s[s])]
    /\ UNCHANGED <<srvVars, s2c, cliVars, sent, failed, http, online, fetch>>

\* the handler reaches `await Board.updateOne(...)`
Suspended(s) ==
    /\ c2s' = [c2s EXCEPT ![s] = Tail(@)]
    /\ dbq' = Append(dbq, [src |-> s, m |-> Head(c2s[s])])
    /\ last' = [k |-> "await"]
    /\ UNCHANGED <<store, rooms, awaiting, s2c, cliVars, sent, failed, http, online, fetch>>

\* socket.on('shape-create')
OnShapeCreate(s) ==
    /\ Recv(s, "shape-create")
    /\ LET m == Head(c2s[s])
       IN IF m.boardId = "" \/ m.shape = Nil THEN Dropped(s) ELSE Suspended(s)

\* socket.on('shape-update'); with no keys in props there is no await and
\* the fact is emitted at once
OnShapeUpdate(s) ==
    /\ Recv(s, "shape-update")
    /\ LET m == Head(c2s[s])
           props == IF m.props = Nil THEN NoProps ELSE m.props
           fact == Fact("shape-updated", Nil, m.shapeId, props, NoName, s, -1)
       IN IF m.boardId = "" \/ m.shapeId = "" THEN Dropped(s)
          ELSE IF DOMAIN props # {} THEN Suspended(s)
          ELSE /\ c2s' = [c2s EXCEPT ![s] = Tail(@)]
               /\ s2c' = EmitTo(IoToRoom(s, m.boardId), fact)
               /\ last' = [k |-> "emit", who |-> s, m |-> fact, wrote |-> FALSE,
                           overtook |-> 0, room |-> rooms[m.boardId], lens |-> InboxLens]
               /\ UNCHANGED <<srvVars, cliVars, sent, failed, http, online, fetch>>

\* socket.on('shape-delete')
OnShapeDelete(s) ==
    /\ Recv(s, "shape-delete")
    /\ LET m == Head(c2s[s])
       IN IF m.boardId = "" \/ m.shapeId = "" THEN Dropped(s) ELSE Suspended(s)

\* socket.on('board-rename')
OnBoardRename(s) ==
    /\ Recv(s, "board-rename")
    /\ LET m == Head(c2s[s])
       IN IF m.boardId = "" \/ m.name.t # "string" THEN Dropped(s) ELSE Suspended(s)

\* what Board.updateOne does to the matched document
Updated(doc, m) ==
    CASE m.type = "shape-create" -> [doc EXCEPT !.shapes = Push(@, m.shape)]
      [] m.type = "shape-update" -> [doc EXCEPT !.shapes = SetMatching(@, m.shapeId, m.props)]
      [] m.type = "shape-delete" -> [doc EXCEPT !.shapes = Pull(@, m.shapeId)]
      [] m.type = "board-rename" -> [doc EXCEPT !.name = RenameValue(m.name)]

\* MongoDB applies one pending update; pending updates of concurrent handlers
\* travel on separate pooled connections and are applied in any order
DbApply(i) ==
    /\ i \in 1..Len(dbq)
    /\ LET h == dbq[i]
           b == h.m.boardId
           hit == IF Found(b) THEN Count(store[b].shapes, h.m.shapeId) ELSE 0
       IN /\ store' = IF Found(b) THEN [store EXCEPT ![b] = Updated(@, h.m)] ELSE store
          /\ awaiting' = Append(awaiting, [src |-> h.src, m |-> h.m, ok |-> TRUE, ghit |-> hit])
          /\ last' = [k |-> "db", who |-> h.src, m |-> h.m, ok |-> TRUE, found |-> Found(b),
                      pre |-> IF Found(b) THEN store[b].shapes ELSE <<>>]
    /\ dbq' = RemoveAt(dbq, i)
    /\ UNCHANGED <<rooms, c2s, s2c, cliVars, sent, failed, http, online, fetch>>

\* Board.updateOne rejects (connection lost, write error)
DbFail(i) ==
    /\ i \in 1..Len(dbq)
    /\ failed < MaxFail
    /\ LET h == dbq[i]
       IN /\ awaiting' = Append(awaiting, [src |-> h.src, m |-> h.m, ok |-> FALSE, ghit |-> -1])
          /\ last' = [k |-> "db", who |-> h.src, m |-> h.m, ok |-> FALSE, found |-> FALSE,
                      pre |-> <<>>]
    /\ dbq' = RemoveAt(dbq, i)
    /\ failed' = failed + 1
    /\ UNCHANGED <<store, rooms, c2s, s2c, cliVars, sent, http, online, fetch>>

\* the fact a handler emits after its try/catch
FactOf(h) ==
    CASE h.m.type = "shape-create" ->
            Fact("shape-created", h.m.shape, "", Nil, NoName, h.src, h.ghit)
      [] h.m.type = "shape-update" ->
            Fact("shape-updated", Nil, h.m.shapeId, h.m.props, NoName, h.src, h.ghit)
      [] h.m.type = "shape-delete" ->
            Fact("shape-deleted", Nil, h.m.shapeId, Nil, NoName, h.src, h.ghit)
      [] h.m.type = "board-rename" ->
            Fact("board-renamed", Nil, "", Nil, Str(RenameValue(h.m.name)), h.src, h.ghit)

\* the suspended handlers whose write took effect before that of handler i
EarlierWrites(i) == {j \in 1..(i - 1) : awaiting[j].ok}

\* the awaited promise settles and the handler runs to its end; the rename
\* handler emits inside its try block, the shape handlers after the catch
Resume(i) ==
    /\ i \in 1..Len(awaiting)
    /\ LET h == awaiting[i]
           b == h.m.boardId
           emits == h.ok \/ h.m.type # "board-rename"
       IN /\ s2c' = IF emits THEN EmitTo(IoToRoom(h.src, b), FactOf(h)) ELSE s2c
          /\ last' = IF emits
                     THEN [k |-> "emit", who |-> h.src, m |-> FactOf(h), wrote |-> h.ok,
                           overtook |-> Cardinality(EarlierWrites(i)),
                           room |-> rooms[b], lens |-> InboxLens]
                     ELSE [k |-> "caught", who |-> h.src, m |-> h.m,
                           room |-> rooms[b], lens |-> InboxLens]
    /\ awaiting' = RemoveAt(awaiting, i)
    /\ UNCHANGED <<store, rooms, dbq, c2s, cliVars, sent, failed, http, online, fetch>>

\* socketRef.current?.emit(...)
Emit(s, m) ==
    /\ s \in online
    /\ sent < MaxIntents
    /\ c2s' = [c2s EXCEPT ![s] = Append(@, m)]
    /\ sent' = sent + 1

-----------------------------------------------------------------------------
(* Client: React state and the autosave effect, BoardCanvas.tsx lines 220-230 *)

\* the effect's cleanup without clearTimeout: the earlier timeout stays pending
RearmKeeping(ts, list) == ts \cup {[left |-> DebounceMs, snap |-> list]}

\* the effect re-runs when `shapes` changes: its cleanup clears the pending
\* timeout, then a new one is set whose closure holds the new list
Rearm(ts, list) == {[left |-> DebounceMs, snap |-> list]}

\* setShapes(list): every caller passes a new array, so the effect re-runs
SetShapes(c, list) ==
    /\ shapes' = [shapes EXCEPT ![c] = list]
    /\ timers' = [timers EXCEPT ![c] = Rearm(@, list)]
    /\ auto' = [auto EXCEPT ![c] = [quiet |-> 0, puts |-> 0,
                                     burst |-> IF timers[c] # {} /\ @.quiet < DebounceMs
                                               THEN 2 ELSE 1]]

-----------------------------------------------------------------------------
(* Client: socket listeners of BoardCanvas.tsx, lines 194-218 *)

\* onCreated / onUpdated / onDeleted; other facts have no listener
Deliver(c) ==
    /\ s2c[c] # <<>>
    /\ LET f == Head(s2c[c])
           prev == shapes[c]
           skip == \/ f.type = "shape-created" /\ DraggingThat(drag[c], IdOf(f.shape))
                   \/ f.type = "shape-updated" /\ DraggingThat(drag[c], f.shapeId)
           next == CASE f.type = "shape-created" -> CreatedList(prev, f.shape)
                     [] f.type = "shape-updated" -> UpdatedList(prev, f.shapeId, f.props)
                     [] f.type = "shape-deleted" -> DeletedList(prev, f.shapeId)
                     [] OTHER -> prev
           listened == f.type \in {"shape-created", "shape-updated", "shape-deleted"}
       IN /\ IF listened /\ ~skip THEN SetShapes(c, next) ELSE UNCHANGED <<shapes, timers, auto>>
          /\ last' = [k |-> IF ~listened THEN "unheard" ELSE IF skip THEN "skip" ELSE "apply",
                      who |-> c, m |-> f, pre |-> prev]
    /\ s2c' = [s2c EXCEPT ![c] = Tail(@)]
    /\ UNCHANGED <<srvVars, c2s, drag, sent, failed, http, online, fetch>>

-----------------------------------------------------------------------------
(* Client: opening a board, BoardCanvas.tsx lines 124-126 and 169-191 *)

NotFetching == [st |-> "idle", data |-> <<>>]
Fetched == [st |-> "done", data |-> <<>>]

\* the component mounts: useState([]) for shapes, the init effect creates the
\* socket and starts the fetch, the autosave effect arms its first timeout
\* with the empty list of the first render
Mount(c) ==
    /\ c \in online
    /\ fetch[c].st = "idle"
    /\ \A b \in BoardIds : c \notin rooms[b]
    /\ fetch' = [fetch EXCEPT ![c] = [st |-> "sent", data |-> <<>>]]
    /\ shapes' = [shapes EXCEPT ![c] = <<>>]
    /\ timers' = [timers EXCEPT ![c] = Rearm(@, <<>>)]
    /\ auto' = [auto EXCEPT ![c] = [quiet |-> 0, puts |-> 0, burst |-> 1]]
    /\ last' = [k |-> "mount", who |-> c]
    /\ UNCHANGED <<srvVars, c2s, s2c, drag, http, online, sent, failed>>

\* router.get('/:id'): Board.findById; 404 when there is no such board
GetBoard(c) ==
    /\ fetch[c].st = "sent"
    /\ fetch' = [fetch EXCEPT ![c] = IF Found("b1")
                                     THEN [st |-> "answered", data |-> store["b1"].shapes]
                                     ELSE [st |-> "refused", data |-> <<>>]]
    /\ last' = [k |-> "get", who |-> c]
    /\ UNCHANGED <<srvVars, c2s, s2c, cliVars, http, online, sent, failed>>

\* the response arrives: if (!res.ok) return; setShapes(data.shapes);
\* socketRef.current?.emit("join-board", { boardId })
FetchBoard(c) ==
    /\ fetch[c].st \in {"answered", "refused"}
    /\ fetch' = [fetch EXCEPT ![c] = Fetched]
    /\ IF fetch[c].st = "answered"
       THEN /\ SetShapes(c, fetch[c].data)
            /\ c2s' = [c2s EXCEPT ![c] = Append(@, JoinBoard("b1"))]
       ELSE UNCHANGED <<shapes, timers, auto, c2s>>
    /\ last' = [k |-> "fetched", who |-> c, ok |-> fetch[c].st = "answered"]
    /\ UNCHANGED <<srvVars, s2c, drag, http, online, sent, failed>>

-----------------------------------------------------------------------------
(* REST: deleting a board *)

\* the Firebase user signed in at the client behind each socket
Uid == [s \in Sessions |-> IF s = "A" THEN "u1" ELSE "u2"]

Users == {Uid[s] : s \in Sessions}

\* the collection without the document
Removed == [exists |-> FALSE, name |-> <<>>, shapes |-> <<>>, ownerId |-> ""]

\* router.delete('/:id'): Board.deleteOne({ _id, ownerId: req.user.uid });
\* the sockets of the board's room are left as they are
DeleteBoard(b, uid) ==
    /\ store' = IF Found(b) /\ store[b].ownerId = uid THEN [store EXCEPT ![b] = Removed]
                ELSE store
    /\ last' = [k |-> "delete-board", who |-> uid, found |-> Found(b)]
    /\ UNCHANGED <<rooms, dbq, awaiting, c2s, s2c, cliVars, http, online, fetch, sent, failed>>

-----------------------------------------------------------------------------
(* Leaving: the cleanup of the client's effects and the server's disconnect *)

\* a disconnect that leaves the room memberships alone
LeaveNone(members, s) == members

\* Socket.IO takes a disconnected socket out of every room
LeaveAll(members, s) == [b \in BoardIds |-> members[b] \ {s}]

\* the component unmounts: abort.abort(), socketRef.current?.disconnect(),
\* socketRef.current = null and clearTimeout(t); what was in transit on the socket is lost, the
\* handlers the server has already started run on
Disconnect(s) ==
    /\ s \in online
    /\ online' = online \ {s}
    /\ rooms' = LeaveAll(rooms, s)
    /\ c2s' = [c2s EXCEPT ![s] = <<>>]
    /\ s2c' = [s2c EXCEPT ![s] = <<>>]
    /\ timers' = [timers EXCEPT ![s] = {}]
    /\ fetch' = [fetch EXCEPT ![s] = NotFetching]
    /\ last' = [k |-> "disconnect", who |-> s]
    /\ UNCHANGED <<store, dbq, awaiting, shapes, drag, auto, http, sent, failed>>

-----------------------------------------------------------------------------
(* Client: edit gestures of BoardCanvas.tsx *)

Editors == {"A", "B"}

InFlight ==
    UNION {{c2s[s][i] : i \in 1..Len(c2s[s])} : s \in Sessions}
    \cup UNION {{s2c[s][i] : i \in 1..Len(s2c[s])} : s \in Sessions}
    \cup {dbq[i].m : i \in 1..Len(dbq)} \cup {awaiting[i].m : i \in 1..Len(awaiting)}

\* generateId(): an id no list and no message holds
FreshId(id) ==
    /\ \A c \in Sessions : id \notin Ids(shapes[c])
    /\ \A b \in BoardIds : id \notin Ids(store[b].shapes)
    /\ \A m \in InFlight : m.shapeId # id /\ (m.shape = Nil \/ IdOf(m.shape) # id)

\* pasteClipboard(): the clone is appended and announced
PasteClipboard(c, pasted) ==
    /\ FreshId(IdOf(pasted))
    /\ Emit(c, ShapeCreate("b1", pasted))
    /\ SetShapes(c, Append(shapes[c], pasted))
    /\ last' = [k |-> "gesture", who |-> c]
    /\ UNCHANGED <<srvVars, s2c, drag, failed, http, online, fetch>>

\* updateSel(props) of the inspector, shown while the selected shape is in the list
UpdateSel(c, selectedId, props) ==
    /\ selectedId \in Ids(shapes[c])
    /\ Emit(c, ShapeUpdate("b1", selectedId, props))
    /\ SetShapes(c, UpdatedList(shapes[c], selectedId, props))
    /\ last' = [k |-> "gesture", who |-> c]
    /\ UNCHANGED <<srvVars, s2c, drag, failed, http, online, fetch>>

\* deleteSelected()
DeleteSelected(c, selId) ==
    /\ selId \in Ids(shapes[c])
    /\ Emit(c, ShapeDelete("b1", selId))
    /\ SetShapes(c, DeletedList(shapes[c], selId))
    /\ drag' = [drag EXCEPT ![c] = NotDragging]
    /\ last' = [k |-> "gesture", who |-> c]
    /\ UNCHANGED <<srvVars, s2c, failed, http, online, fetch>>

-----------------------------------------------------------------------------
(* Client: dragging a shape with the select tool, BoardCanvas.tsx lines *)
(* 670-689, 796-859 and 910-927                                         *)

IsRectLike(s) == s.type \in RectTypes
IsLineLike(s) == s.type \in LineTypes

\* the pointer moves by DragStep to the right, up to the right edge MaxX
DragStep == 5
MaxX == 20

\* hitTest: the topmost shape under the pointer
TopMost(list, id) == list[CHOOSE i \in 1..Len(list) :
                            /\ IdOf(list[i]) = id
                            /\ \A j \in (i + 1)..Len(list) : IdOf(list[j]) # id]

\* shapes.find((s) => s.id === finalShape.id)
Find(list, id) == list[CHOOSE i \in 1..Len(list) :
                         /\ IdOf(list[i]) = id
                         /\ \A j \in 1..(i - 1) : IdOf(list[j]) # id]

\* the "moving" branch of handlePointerMove
Moved(s, dx, dy) ==
    IF IsRectLike(s) THEN [s EXCEPT !.x = @ + dx, !.y = @ + dy]
    ELSE IF IsLineLike(s) THEN [s EXCEPT !.x1 = @ + dx, !.y1 = @ + dy,
                                         !.x2 = @ + dx, !.y2 = @ + dy]
    ELSE s

RightEdge(s) == IF IsRectLike(s) THEN s.x ELSE IF IsLineLike(s) THEN s.x2 ELSE 0

\* diffShape(prev, next): the keys of next whose value differs from prev's
DiffShape(prev, next) ==
    [k \in {j \in DOMAIN next : j \notin DOMAIN prev \/ next[j] # prev[j]} |-> next[k]]

\* prev.map((s) => (s.id === finalShape.id ? finalShape : s))
ReplacedList(prev, final) ==
    [i \in 1..Len(prev) |-> IF IdOf(prev[i]) = IdOf(final) THEN final ELSE prev[i]]

\* handlePointerDown with the select tool on a shape
PointerDown(c, id) ==
    /\ ~drag[c].on
    /\ id \in Ids(shapes[c])
    /\ drag' = [drag EXCEPT ![c] = [on |-> TRUE, shape |-> TopMost(shapes[c], id),
                                     mutated |-> FALSE]]
    /\ last' = [k |-> "pointer-down", who |-> c]
    /\ UNCHANGED <<srvVars, c2s, s2c, shapes, timers, auto, http, online, fetch, sent, failed>>

\* handlePointerMove while dragging
PointerMove(c, dx) ==
    /\ drag[c].on
    /\ RightEdge(Moved(drag[c].shape, dx, 0)) <= MaxX
    /\ drag' = [drag EXCEPT ![c] = [on |-> TRUE, shape |-> Moved(@.shape, dx, 0),
                                     mutated |-> TRUE]]
    /\ last' = [k |-> "pointer-move", who |-> c]
    /\ UNCHANGED <<srvVars, c2s, s2c, shapes, timers, auto, http, online, fetch, sent, failed>>

\* handlePointerUp, "end dragging"
PointerUp(c) ==
    /\ drag[c].on
    /\ LET final == drag[c].shape
           has == drag[c].mutated /\ IdOf(final) \in Ids(shapes[c])
           diff == DiffShape(Find(shapes[c], IdOf(final)), final)
       IN /\ IF has
             THEN /\ SetShapes(c, ReplacedList(shapes[c], final))
                  /\ IF DOMAIN diff # {}
                     THEN Emit(c, ShapeUpdate("b1", IdOf(final), diff))
                     ELSE UNCHANGED <<c2s, sent>>
             ELSE UNCHANGED <<shapes, timers, auto, c2s, sent>>
          /\ last' = [k |-> "pointer-up", who |-> c, id |-> IdOf(final), pre |-> shapes[c],
                      moved |-> drag[c].mutated, lens |-> Len(c2s[c])]
    /\ drag' = [drag EXCEPT ![c] = NotDragging]
    /\ UNCHANGED <<srvVars, s2c, http, online, fetch, failed>>

-----------------------------------------------------------------------------
(* Time, the autosave callback and the route it calls *)

Max(a, b) == IF a > b THEN a ELSE b
Min(a, b) == IF a < b THEN a ELSE b

\* TickMs of time pass
Tick ==
    /\ timers' = [c \in Sessions |-> {[t EXCEPT !.left = Max(0, @ - TickMs)] : t \in timers[c]}]
    /\ auto' = [c \in Sessions |-> [auto[c] EXCEPT !.quiet = Min(DebounceMs, @ + TickMs)]]
    /\ last' = [k |-> "tick"]
    /\ UNCHANGED <<srvVars, c2s, s2c, shapes, drag, sent, failed, http, online, fetch>>

\* the timeout callback: fetch(PUT /api/boards/:id/shapes) with the list of its closure
AutosaveFire(c) ==
    /\ \E t \in timers[c] :
          /\ t.left = 0
          /\ timers' = [timers EXCEPT ![c] = @ \ {t}]
          /\ http' = http \cup {[from |-> c, boardId |-> "b1", shapes |-> t.snap]}
          /\ last' = [k |-> "autosave", who |-> c, body |-> t.snap, quiet |-> auto[c].quiet,
                      burst |-> auto[c].burst]
    /\ auto' = [auto EXCEPT ![c].puts = @ + 1]
    /\ UNCHANGED <<srvVars, c2s, s2c, shapes, drag, sent, failed, online, fetch>>

\* router.put('/:id/shapes'): overwrite the stored list; the client ignores the response
PutShapes(r) ==
    /\ r \in http
    /\ store' = IF Found(r.boardId)
                THEN [store EXCEPT ![r.boardId].shapes = r.shapes] ELSE store
    /\ last' = [k |-> "put", who |-> r.from, body |-> r.shapes, found |-> Found(r.boardId)]
    /\ http' = http \ {r}
    /\ UNCHANGED <<rooms, dbq, awaiting, c2s, s2c, cliVars, sent, failed, online, fetch>>

-----------------------------------------------------------------------------
(* Environment: a connected socket emits any intent *)

\* intents on shapes, well-formed or not, known target or not
OpsIntents(s) ==
    IF s = "A"
    THEN {ShapeCreate("b1", sh) : sh \in {R1} \cup BadShapes}
         \cup {ShapeUpdate("b1", "s1", p) : p \in PropsPool \ {[x |-> 30]}}
         \cup {ShapeDelete("b1", "s1")}
         \cup {ShapeCreate("", R1), ShapeCreate("b1", Nil), ShapeUpdate("b1", "", [x |-> 20]),
               ShapeDelete("b1", ""), ShapeUpdate("b1", "s1", Nil)}
    ELSE IF s = "B"
    THEN {ShapeUpdate("b1", "s1", [x |-> 30])}
    ELSE {}

\* one intent of every type
FanIntents ==
    {JoinBoard("b1"), ShapeCreate("b1", R1), ShapeUpdate("b1", "s1", [x |-> 20]),
     ShapeDelete("b1", "s1")}
    \cup {BoardRename("b1", n) : n \in NamePool}

SendIntent(s, m) ==
    /\ Emit(s, m)
    /\ last' = [k |-> "send"]
    /\ UNCHANGED <<srvVars, s2c, cliVars, failed, http, online, fetch>>

-----------------------------------------------------------------------------
(* Specification of the synchronisation engine under arbitrary intents *)

Board0 == {<<>>, <<R1, L2>>}

\* the other board: a document of another user, opened by nobody
Board2 == [exists |-> TRUE, name |-> <<"Q">>, shapes |-> <<[R1 EXCEPT !.id = "s9"]>>,
           ownerId |-> Uid["B"]]

\* the sockets of `present` have joined b1 and hold the stored list, one of
\* `boards`; their autosave of that list has been issued (fetch and join,
\* lines 169-191)
OpenedOn(present, boards) ==
    /\ \E l \in boards :
          /\ store = [b \in BoardIds |->
                        IF b = "b1" THEN [exists |-> TRUE, name |-> <<"P">>, shapes |-> l,
                                          ownerId |-> Uid["A"]]
                        ELSE Board2]
          /\ shapes = [c \in Sessions |-> IF c \in present THEN l ELSE <<>>]
    /\ rooms = [b \in BoardIds |-> IF b = "b1" THEN present ELSE {}]
    /\ c2s = [s \in Sessions |-> <<>>]
    /\ s2c = [s \in Sessions |-> <<>>]
    /\ dbq = <<>>
    /\ awaiting = <<>>
    /\ drag = [c \in Sessions |-> NotDragging]
    /\ timers = [c \in Sessions |-> {}]
    /\ http = {}
    /\ auto = [c \in Sessions |-> [quiet |-> DebounceMs, puts |-> 1, burst |-> 1]]
    /\ obs = [quiet |-> DebounceMs, writes |-> 1, arrived |-> [m |-> Nil, from |-> {}],
              made |-> {}, skipped |-> {}, gone |-> {}]
    /\ online = Sessions
    /\ fetch = [c \in Sessions |-> IF c \in present THEN Fetched ELSE NotFetching]
    /\ sent = 0
    /\ failed = 0
    /\ last = [k |-> "init"]

Opened(present) == OpenedOn(present, Board0)

Init == Opened({"A", "B"})

InitSave == Opened({"A"})

Next ==
    \/ \E s \in Sessions : \E m \in OpsIntents(s) : SendIntent(s, m) /\ UNCHANGED obs
    \/ \E s \in Sessions : OnShapeCreate(s) /\ UNCHANGED obs
    \/ \E s \in Sessions : OnShapeUpdate(s) /\ UNCHANGED obs
    \/ \E s \in Sessions : OnShapeDelete(s) /\ UNCHANGED obs
    \/ \E i \in 1..MaxIntents : DbApply(i) /\ UNCHANGED obs
    \/ \E i \in 1..MaxIntents : DbFail(i) /\ UNCHANGED obs
    \/ \E i \in 1..MaxIntents : Resume(i) /\ UNCHANGED obs
    \/ \E c \in Sessions : Deliver(c) /\ UNCHANGED obs

Spec == Init /\ [][Next]_vars

-----------------------------------------------------------------------------
(* Specification of the fan-out: every intent type, sockets joining *)

NextFan ==
    \/ \E s \in Sessions : \E m \in FanIntents : SendIntent(s, m) /\ UNCHANGED obs
    \/ \E s \in Sessions : OnJoinBoard(s) /\ UNCHANGED obs
    \/ \E s \in Sessions : OnShapeCreate(s) /\ UNCHANGED obs
    \/ \E s \in Sessions : OnShapeUpdate(s) /\ UNCHANGED obs
    \/ \E s \in Sessions : OnShapeDelete(s) /\ UNCHANGED obs
    \/ \E s \in Sessions : OnBoardRename(s) /\ UNCHANGED obs
    \/ \E i \in 1..MaxIntents : DbApply(i) /\ UNCHANGED obs
    \/ \E i \in 1..MaxIntents : DbFail(i) /\ UNCHANGED obs
    \/ \E i \in 1..MaxIntents : Resume(i) /\ UNCHANGED obs
    \/ \E c \in Sessions : Deliver(c) /\ UNCHANGED obs

SpecFan == Init /\ [][NextFan]_vars

-----------------------------------------------------------------------------
(* Specification of two editors of one board *)

\* history: the shape-update intent that reached the server last, and the
\* sockets whose shape-update intents have reached it
Arrived(s) == obs' = [obs EXCEPT !.arrived = [m |-> Head(c2s[s]), from |-> @.from \cup {s}]]

NextEdit ==
    \/ \E c \in Editors : PasteClipboard(c, L2) /\ UNCHANGED obs
    \/ UpdateSel("A", "s1", [x |-> 20]) /\ UNCHANGED obs
    \/ UpdateSel("B", "s1", [x |-> 30]) /\ UNCHANGED obs
    \/ \E c \in Editors : DeleteSelected(c, "s1") /\ UNCHANGED obs
    \/ \E s \in Sessions : OnShapeCreate(s) /\ UNCHANGED obs
    \/ \E s \in Sessions : OnShapeUpdate(s) /\ Arrived(s)
    \/ \E s \in Sessions : OnShapeDelete(s) /\ UNCHANGED obs
    \/ \E i \in 1..MaxIntents : DbApply(i) /\ UNCHANGED obs
    \/ \E i \in 1..MaxIntents : Resume(i) /\ UNCHANGED obs
    \/ \E c \in Sessions : Deliver(c) /\ UNCHANGED obs

SpecEdit == Init /\ [][NextEdit]_vars

-----------------------------------------------------------------------------
(* Specification of one editor and one peer, with time and autosave *)

\* history: an edit gesture starts or continues a burst
Edited == obs' = [obs EXCEPT !.quiet = 0, !.writes = 0]

\* history: the store was written
Wrote == obs' = [obs EXCEPT !.writes = Min(@ + 1, 2)]

NextSave ==
    \/ PasteClipboard("A", R1) /\ Edited
    \/ \E p \in {[x |-> 20], [x |-> 30]} : UpdateSel("A", "s1", p) /\ Edited
    \/ DeleteSelected("A", "s1") /\ Edited
    \/ Tick /\ obs' = [obs EXCEPT !.quiet = Min(DebounceMs, @ + TickMs)]
    \/ \E c \in Sessions : AutosaveFire(c) /\ UNCHANGED obs
    \/ \E r \in http : PutShapes(r) /\ Wrote
    \/ \E s \in Sessions : OnShapeCreate(s) /\ UNCHANGED obs
    \/ \E s \in Sessions : OnShapeUpdate(s) /\ UNCHANGED obs
    \/ \E s \in Sessions : OnShapeDelete(s) /\ UNCHANGED obs
    \/ \E i \in 1..MaxIntents : DbApply(i) /\ Wrote
    \/ \E i \in 1..MaxIntents : Resume(i) /\ UNCHANGED obs
    \/ \E c \in Sessions : Deliver(c) /\ UNCHANGED obs

SpecSave == InitSave /\ [][NextSave]_vars

-----------------------------------------------------------------------------
(* Specification of one session of two editors: A has drawn rect s1, B moves *)
(* it, A deletes it; time passes and the autosaves run                      *)

InitScene == OpenedOn({"A", "B"}, {<<R1>>})

NextScene ==
    \/ sent = 0 /\ UpdateSel("B", "s1", [x |-> 20]) /\ Edited
    \/ sent = 1 /\ s2c["A"] = <<>> /\ awaiting = <<>> /\ dbq = <<>> /\ c2s["B"] = <<>>
                /\ DeleteSelected("A", "s1") /\ Edited
    \/ Tick /\ obs' = [obs EXCEPT !.quiet = Min(DebounceMs, @ + TickMs)]
    \/ \E c \in Sessions : AutosaveFire(c) /\ UNCHANGED obs
    \/ \E r \in http : PutShapes(r) /\ Wrote
    \/ \E s \in Sessions : OnShapeUpdate(s) /\ UNCHANGED obs
    \/ \E s \in Sessions : OnShapeDelete(s) /\ UNCHANGED obs
    \/ \E i \in 1..MaxIntents : DbApply(i) /\ Wrote
    \/ \E i \in 1..MaxIntents : DbFail(i) /\ UNCHANGED obs
    \/ \E i \in 1..MaxIntents : Resume(i) /\ UNCHANGED obs
    \/ \E c \in Sessions : Deliver(c) /\ UNCHANGED obs

SpecScene == InitScene /\ [][NextScene]_vars

-----------------------------------------------------------------------------
(* Specification of renaming: board-rename intents of two sockets *)

NextName ==
    \/ \E s \in Editors : \E n \in NamePool : SendIntent(s, BoardRename("b1", n)) /\ UNCHANGED obs
    \/ \E s \in Sessions : OnBoardRename(s) /\ UNCHANGED obs
    \/ \E i \in 1..MaxIntents : DbApply(i) /\ UNCHANGED obs
    \/ \E i \in 1..MaxIntents : DbFail(i) /\ UNCHANGED obs
    \/ \E i \in 1..MaxIntents : Resume(i) /\ UNCHANGED obs
    \/ \E c \in Sessions : Deliver(c) /\ UNCHANGED obs

SpecName == Init /\ [][NextName]_vars

-----------------------------------------------------------------------------
(* Specification of joining: sockets join, once or again, while A edits *)

NextJoin ==
    \/ \E s \in Sessions : SendIntent(s, JoinBoard("b1")) /\ UNCHANGED obs
    \/ SendIntent("A", ShapeUpdate("b1", "s1", [x |-> 20])) /\ UNCHANGED obs
    \/ \E s \in Sessions : OnJoinBoard(s) /\ UNCHANGED obs
    \/ \E s \in Sessions : OnShapeUpdate(s) /\ UNCHANGED obs
    \/ \E i \in 1..MaxIntents : DbApply(i) /\ UNCHANGED obs
    \/ \E i \in 1..MaxIntents : Resume(i) /\ UNCHANGED obs
    \/ \E c \in Sessions : Deliver(c) /\ UNCHANGED obs

SpecJoin == Init /\ [][NextJoin]_vars

-----------------------------------------------------------------------------
(* Specification of leaving: A and B edit, any socket may disconnect *)

NextQuit ==
    \/ SendIntent("A", ShapeUpdate("b1", "s1", [x |-> 20])) /\ UNCHANGED obs
    \/ SendIntent("B", ShapeDelete("b1", "s1")) /\ UNCHANGED obs
    \/ \E s \in Sessions : Disconnect(s) /\ UNCHANGED obs
    \/ \E s \in Sessions : OnShapeUpdate(s) /\ UNCHANGED obs
    \/ \E s \in Sessions : OnShapeDelete(s) /\ UNCHANGED obs
    \/ \E i \in 1..MaxIntents : DbApply(i) /\ UNCHANGED obs
    \/ \E i \in 1..MaxIntents : Resume(i) /\ UNCHANGED obs
    \/ \E c \in Sessions : Deliver(c) /\ UNCHANGED obs

SpecQuit == Init /\ [][NextQuit]_vars

-----------------------------------------------------------------------------
(* Specification of a deleted board: intents sent to b1 once it is gone *)

NextGone ==
    \/ \E u \in Users : DeleteBoard("b1", u) /\ UNCHANGED obs
    \/ \E s \in Editors : \E m \in FanIntents \ {JoinBoard("b1")} :
          ~Found("b1") /\ SendIntent(s, m) /\ UNCHANGED obs
    \/ \E s \in Sessions : OnShapeCreate(s) /\ UNCHANGED obs
    \/ \E s \in Sessions : OnShapeUpdate(s) /\ UNCHANGED obs
    \/ \E s \in Sessions : OnShapeDelete(s) /\ UNCHANGED obs
    \/ \E s \in Sessions : OnBoardRename(s) /\ UNCHANGED obs
    \/ \E i \in 1..MaxIntents : DbApply(i) /\ UNCHANGED obs
    \/ \E i \in 1..MaxIntents : Resume(i) /\ UNCHANGED obs
    \/ \E c \in Sessions : Deliver(c) /\ UNCHANGED obs

SpecGone == Init /\ [][NextGone]_vars

-----------------------------------------------------------------------------
(* Specification of leaving with an autosave pending: A draws, time passes, *)
(* A's component may unmount and the board may be deleted; the clock runs   *)
(* and a timeout that is due is called                                      *)

NextLeave ==
    \/ PasteClipboard("A", R1) /\ Edited
    \/ Tick /\ obs' = [obs EXCEPT !.quiet = Min(DebounceMs, @ + TickMs)]
    \/ \E c \in Sessions : AutosaveFire(c) /\ UNCHANGED obs
    \/ \E r \in http : PutShapes(r) /\ Wrote
    \/ \E s \in Editors : Disconnect(s) /\ UNCHANGED obs
    \/ \E u \in Users : DeleteBoard("b1", u) /\ UNCHANGED obs
    \/ \E s \in Sessions : OnShapeCreate(s) /\ UNCHANGED obs
    \/ \E i \in 1..MaxIntents : DbApply(i) /\ Wrote
    \/ \E i \in 1..MaxIntents : Resume(i) /\ UNCHANGED obs
    \/ \E c \in Sessions : Deliver(c) /\ UNCHANGED obs

SpecLeave ==
    /\ Init
    /\ [][NextLeave]_vars
    /\ WF_vars(Tick /\ obs' = [obs EXCEPT !.quiet = Min(DebounceMs, @ + TickMs)])
    /\ \A c \in Sessions : WF_vars(AutosaveFire(c) /\ UNCHANGED obs)

-----------------------------------------------------------------------------
(* Specification of writes to a missing board: A draws on b1 and autosaves, *)
(* raw intents address b1 and b2, and b1 may be deleted at any time         *)

MissingIntents ==
    {ShapeUpdate("b1", "s1", [x |-> 20]), ShapeDelete("b1", "s1"),
     BoardRename("b1", Str(<<" ", "P", " ">>)), ShapeUpdate("b2", "s9", [x |-> 20])}

NextMissing ==
    \/ PasteClipboard("A", R1) /\ Edited
    \/ \E m \in MissingIntents : SendIntent("B", m) /\ UNCHANGED obs
    \/ DeleteBoard("b1", Uid["A"]) /\ UNCHANGED obs
    \/ Tick /\ obs' = [obs EXCEPT !.quiet = Min(DebounceMs, @ + TickMs)]
    \/ \E c \in Sessions : AutosaveFire(c) /\ UNCHANGED obs
    \/ \E r \in http : PutShapes(r) /\ Wrote
    \/ \E s \in Sessions : OnShapeCreate(s) /\ UNCHANGED obs
    \/ \E s \in Sessions : OnShapeUpdate(s) /\ UNCHANGED obs
    \/ \E s \in Sessions : OnShapeDelete(s) /\ UNCHANGED obs
    \/ \E s \in Sessions : OnBoardRename(s) /\ UNCHANGED obs
    \/ \E i \in 1..MaxIntents : DbApply(i) /\ Wrote
    \/ \E i \in 1..MaxIntents : DbFail(i) /\ UNCHANGED obs
    \/ \E i \in 1..MaxIntents : Resume(i) /\ UNCHANGED obs
    \/ \E c \in Sessions : Deliver(c) /\ UNCHANGED obs

SpecMissing == InitSave /\ [][NextMissing]_vars

-----------------------------------------------------------------------------
(* Specification of two clients drawing on an empty board, with autosave *)

InitLost == OpenedOn({"A", "B"}, {<<>>})

\* history: the ids written by a shape-create and not removed by a shape-delete
Made(i) ==
    LET m == dbq[i].m
    IN obs' = [obs EXCEPT !.made =
                  IF ~Found(m.boardId) THEN @
                  ELSE IF m.type = "shape-create" THEN @ \cup {IdOf(m.shape)}
                  ELSE IF m.type = "shape-delete" THEN @ \ {m.shapeId}
                  ELSE @]

NextLost ==
    \/ PasteClipboard("A", R1) /\ UNCHANGED obs
    \/ PasteClipboard("B", L2) /\ UNCHANGED obs
    \/ Tick /\ UNCHANGED obs
    \/ \E c \in Sessions : AutosaveFire(c) /\ UNCHANGED obs
    \/ \E r \in http : PutShapes(r) /\ UNCHANGED obs
    \/ \E s \in Sessions : OnShapeCreate(s) /\ UNCHANGED obs
    \/ \E i \in 1..MaxIntents : DbApply(i) /\ Made(i)
    \/ \E i \in 1..MaxIntents : Resume(i) /\ UNCHANGED obs
    \/ \E c \in Sessions : Deliver(c) /\ UNCHANGED obs

SpecLost == InitLost /\ [][NextLost]_vars

-----------------------------------------------------------------------------
(* Specification of viewing: C opens the board A has open and edits nothing; *)
(* a raw socket B sends an intent, so that facts reach the two viewers       *)

InitView == OpenedOn({"A"}, {<<R1, L2>>})

NextView ==
    \/ Mount("C") /\ UNCHANGED obs
    \/ \E c \in Sessions : GetBoard(c) /\ UNCHANGED obs
    \/ \E c \in Sessions : FetchBoard(c) /\ UNCHANGED obs
    \/ SendIntent("B", ShapeUpdate("b1", "s1", [x |-> 20])) /\ UNCHANGED obs
    \/ Tick /\ UNCHANGED obs
    \/ \E c \in Sessions : AutosaveFire(c) /\ UNCHANGED obs
    \/ \E r \in http : PutShapes(r) /\ UNCHANGED obs
    \/ \E s \in Sessions : OnJoinBoard(s) /\ UNCHANGED obs
    \/ \E s \in Sessions : OnShapeUpdate(s) /\ UNCHANGED obs
    \/ \E i \in 1..MaxIntents : DbApply(i) /\ UNCHANGED obs
    \/ \E i \in 1..MaxIntents : Resume(i) /\ UNCHANGED obs
    \/ \E c \in Sessions : Deliver(c) /\ UNCHANGED obs

SpecView == InitView /\ [][NextView]_vars

-----------------------------------------------------------------------------
(* Specification of dragging: B drags s1 while A changes or deletes it *)

InitDrag == OpenedOn({"A", "B"}, {<<R1, L2>>})

\* history: c lets go of what it held
Grabbed(c) == obs' = [obs EXCEPT !.gone = @ \ {c}]

\* history: the fact c handles next is about the shape c is dragging
Noted(c) ==
    LET f == Head(s2c[c])
    IN obs' = [obs EXCEPT
                 !.skipped = IF \/ f.type = "shape-created" /\ DraggingThat(drag[c], IdOf(f.shape))
                                \/ f.type = "shape-updated" /\ DraggingThat(drag[c], f.shapeId)
                             THEN @ \cup {c} ELSE @,
                 !.gone = IF f.type = "shape-deleted" /\ DraggingThat(drag[c], f.shapeId)
                          THEN @ \cup {c} ELSE @]

NextDrag ==
    \/ PointerDown("B", "s1") /\ Grabbed("B")
    \/ PointerMove("B", DragStep) /\ UNCHANGED obs
    \/ PointerUp("B") /\ UNCHANGED obs
    \/ UpdateSel("A", "s1", [y |-> 7, fill |-> "red"]) /\ UNCHANGED obs
    \/ DeleteSelected("A", "s1") /\ UNCHANGED obs
    \/ \E s \in Sessions : OnShapeUpdate(s) /\ UNCHANGED obs
    \/ \E s \in Sessions : OnShapeDelete(s) /\ UNCHANGED obs
    \/ \E i \in 1..MaxIntents : DbApply(i) /\ UNCHANGED obs
    \/ \E i \in 1..MaxIntents : Resume(i) /\ UNCHANGED obs
    \/ \E c \in Sessions : Deliver(c) /\ Noted(c)

SpecDrag == InitDrag /\ [][NextDrag]_vars

-----------------------------------------------------------------------------
(* Specification of opening: C opens the board while a socket updates s1 *)

NextOpen ==
    \/ Mount("C") /\ UNCHANGED obs
    \/ \E c \in Sessions : GetBoard(c) /\ UNCHANGED obs
    \/ \E c \in Sessions : FetchBoard(c) /\ UNCHANGED obs
    \/ SendIntent("B", ShapeUpdate("b1", "s1", [x |-> 20])) /\ UNCHANGED obs
    \/ \E s \in Sessions : OnJoinBoard(s) /\ UNCHANGED obs
    \/ \E s \in Sessions : OnShapeUpdate(s) /\ UNCHANGED obs
    \/ \E i \in 1..MaxIntents : DbApply(i) /\ UNCHANGED obs
    \/ \E i \in 1..MaxIntents : Resume(i) /\ UNCHANGED obs
    \/ \E c \in Sessions : Deliver(c) /\ UNCHANGED obs

SpecOpen == InitView /\ [][NextOpen]_vars

-----------------------------------------------------------------------------
(* Properties *)

TheBoard == store["b1"].shapes

DbDid(type) == last.k = "db" /\ last.ok /\ last.found /\ last.m.type = type

Applied(type) == last.k = "apply" /\ last.m.type = type

AllFacts == UNION {{s2c[s][i] : i \in 1..Len(s2c[s])} : s \in Sessions}

\* C1: the fact produced by an intent of session S is never delivered back to S
EchoSuppressed ==
    \A s \in Sessions : \A i \in 1..Len(s2c[s]) : s2c[s][i].gsrc # s

\* C2: a fact is delivered to exactly the sessions of the room other than its
\* author, once each
FanOutExact ==
    last.k = "emit" =>
        \A r \in Sessions :
            Len(s2c[r]) - last.lens[r] = IF r \in last.room \ {last.who} THEN 1 ELSE 0

\* C3: after a shape-create is applied, the stored list and a peer's list hold
\* exactly one shape with the created id
IdempotentCreate ==
    /\ DbDid("shape-create") => Count(TheBoard, IdOf(last.m.shape)) = 1
    /\ Applied("shape-created") => Count(shapes[last.who], IdOf(last.m.shape)) = 1

\* new is old with exactly the keys of P overwritten by P's values
MergedOnto(old, new, P) ==
    /\ DOMAIN new = DOMAIN old \cup DOMAIN P
    /\ \A k \in DOMAIN P : new[k] = P[k]
    /\ \A k \in DOMAIN old \ DOMAIN P : new[k] = old[k]

MergeResult(pre, post, id, P) ==
    /\ Len(post) = Len(pre)
    /\ \A i \in 1..Len(pre) :
          IF IdOf(pre[i]) = id THEN MergedOnto(pre[i], post[i], P) ELSE post[i] = pre[i]

\* C4: a shape-update applied to the store, and a shape-updated fact applied by
\* a peer, overwrite exactly the keys of props on the shape with that id and
\* leave every other key and every other shape as it was
UpdateMerges ==
    /\ DbDid("shape-update") => MergeResult(last.pre, TheBoard, last.m.shapeId, last.m.props)
    /\ Applied("shape-updated") =>
          MergeResult(last.pre, shapes[last.who], last.m.shapeId, last.m.props)

\* a peer merged a fact that overwrites one key and adds another, onto a shape
\* the store had merged it onto as well, in a list holding another shape
UpdateMergesWitness ==
    /\ Applied("shape-updated")
    /\ last.m.ghit = 1
    /\ last.m.props = [y |-> 7, fill |-> "red"]
    /\ Count(last.pre, last.m.shapeId) = 1
    /\ Len(last.pre) > 1

RemovedOne(pre, post, id) ==
    IF id \in Ids(pre)
    THEN \E i \in 1..Len(pre) :
            /\ IdOf(pre[i]) = id
            /\ post = SubSeq(pre, 1, i - 1) \o SubSeq(pre, i + 1, Len(pre))
    ELSE post = pre

\* C5: on a list with at most one shape of id X, a delete of X removes that
\* entry and keeps every other entry, in order; without such a shape the list
\* is unchanged
DeleteRemovesOne ==
    /\ DbDid("shape-delete") /\ Count(last.pre, last.m.shapeId) <= 1 =>
          RemovedOne(last.pre, TheBoard, last.m.shapeId)
    /\ Applied("shape-deleted") /\ Count(last.pre, last.m.shapeId) <= 1 =>
          RemovedOne(last.pre, shapes[last.who], last.m.shapeId)

\* a peer removed the one shape of that id from a list holding another shape,
\* after the store had removed it
DeleteRemovesOneWitness ==
    /\ Applied("shape-deleted")
    /\ last.m.ghit = 1
    /\ Count(last.pre, last.m.shapeId) = 1
    /\ Len(last.pre) > 1

\* C9: no malformed shape is ever stored or broadcast, and an intent lacking
\* boardId, shape or shapeId changes nothing
MalformedRejected ==
    /\ \A i \in 1..Len(TheBoard) : IsShape(TheBoard[i])
    /\ \A f \in AllFacts : f.type = "shape-created" => IsShape(f.shape)
    /\ last.k = "drop" => dbq = <<>> \/ dbq[Len(dbq)].m # last.m

\* C8: a fact is emitted only when no earlier write to the board is still
\* waiting for its own fact to be emitted
FanOutInOrder == last.k = "emit" /\ last.wrote => last.overtook = 0

TargetFacts == {"shape-updated", "shape-deleted"}

\* the store was asked to update or delete a shape id it does not hold
DbMissed ==
    /\ DbDid("shape-update") \/ DbDid("shape-delete")
    /\ last.m.shapeId \notin Ids(last.pre)

\* the parts of C10 about the server: the stored list is unchanged, the fact
\* still goes to every socket of the room, and no error event is sent
UnknownTargetServer ==
    /\ DbMissed => TheBoard = last.pre
    /\ last.k = "emit" /\ last.m.type \in TargetFacts /\ last.m.ghit = 0 =>
          \A r \in last.room : Len(s2c[r]) = last.lens[r] + 1
    /\ last.k = "caught" => last.m.type = "board-rename"
    /\ \A f \in AllFacts :
          f.type \in {"shape-created", "shape-updated", "shape-deleted",
                      "board-renamed", "user-joined"}

\* C10 as stated: ... and every peer that applies the fact of an intent whose
\* shapeId matched no stored shape keeps its local list as it was
UnknownTargetAsStated ==
    /\ UnknownTargetServer
    /\ last.k = "apply" /\ last.m.type \in TargetFacts /\ last.m.ghit = 0 =>
          shapes[last.who] = last.pre

\* C10 amended: ... and every such peer whose own list holds no shape with
\* that id keeps its local list as it was
UnknownTarget ==
    /\ UnknownTargetServer
    /\ last.k = "apply" /\ last.m.type \in TargetFacts /\ last.m.ghit = 0
          /\ last.m.shapeId \notin Ids(last.pre) =>
          shapes[last.who] = last.pre

\* a peer holding other shapes applied the fact of an update that had matched
\* nothing in the store and matches nothing in its list
UnknownTargetWitness ==
    /\ Applied("shape-updated")
    /\ last.m.ghit = 0
    /\ last.m.props = [x |-> 20]
    /\ last.m.shapeId \notin Ids(last.pre)
    /\ last.pre # <<>>

-----------------------------------------------------------------------------
(* Autosave *)

-----------------------------------------------------------------------------
(* Convergence *)

Quiescent ==
    /\ \A s \in Sessions : c2s[s] = <<>> /\ s2c[s] = <<>>
    /\ dbq = <<>>
    /\ awaiting = <<>>

\* the shape `shapeId` of `list`, if any, has every key of props at its value
Holds(list, shapeId, props) ==
    \A i \in 1..Len(list) :
        IdOf(list[i]) = shapeId => \A key \in DOMAIN props : list[i][key] = props[key]

\* C7: when two clients have each sent a shape-update for x of s1 and every
\* intent and fact has been delivered, the store and every client of the room,
\* the authors included, hold the x of the intent that reached the server last
LastWriteWins ==
    Quiescent /\ obs.arrived.from = Editors =>
        /\ Holds(TheBoard, obs.arrived.m.shapeId, obs.arrived.m.props)
        /\ \A c \in rooms["b1"] :
              Holds(shapes[c], obs.arrived.m.shapeId, obs.arrived.m.props)

-----------------------------------------------------------------------------
(* Failure of the store *)

FactTypes == {"user-joined", "shape-created", "shape-updated", "shape-deleted", "board-renamed"}

\* a handler has run to its end after its store write failed, or without one
AfterFailedWrite == last.k = "caught" \/ (last.k = "emit" /\ ~last.wrote)

\* C11: when the store write of an intent of any type fails, its fact still
\* reaches every socket of the room, and no error event is sent to a client
FailureKeepsFact ==
    /\ AfterFailedWrite => \A r \in last.room : Len(s2c[r]) = last.lens[r] + 1
    /\ \A f \in AllFacts : f.type \in FactTypes

-----------------------------------------------------------------------------
(* The session of SpecScene *)

\* every message is delivered, every autosave has been issued and has landed
Settled ==
    /\ Quiescent
    /\ \A c \in Sessions : timers[c] = {}
    /\ http = {}

\* C12: when A receives B's update its copy of s1 is the rect as created with
\* x = 20; after A's delete, once everything is delivered and the autosaves
\* have run, neither client holds s1 and the stored list is empty
SceneEndsEmpty ==
    /\ Applied("shape-updated") /\ last.who = "A" /\ last.pre = <<R1>> =>
          shapes["A"] = <<[R1 EXCEPT !.x = 20]>>
    /\ sent = 2 /\ Settled =>
          /\ TheBoard = <<>>
          /\ \A c \in rooms["b1"] : "s1" \notin Ids(shapes[c])

-----------------------------------------------------------------------------
(* Identity of shapes *)

NoDuplicateId(list) == \A i, j \in 1..Len(list) : IdOf(list[i]) = IdOf(list[j]) => i = j

\* C13: in every reachable state no two entries of the stored list, and no
\* two entries of a client's list, have the same id
UniqueShapeIds ==
    /\ \A b \in BoardIds : NoDuplicateId(store[b].shapes)
    /\ \A c \in Sessions : NoDuplicateId(shapes[c])

-----------------------------------------------------------------------------
(* Ownership *)

\* C14: an intent whose sender is not the owner of the board leaves the
\* stored board as it was
OwnerOnly ==
    last.k = "db" /\ last.ok /\ last.found /\ Uid[last.who] # store[last.m.boardId].ownerId =>
        store[last.m.boardId].shapes = last.pre

-----------------------------------------------------------------------------
(* Renaming *)

\* t is n without its leading and trailing spaces
IsTrimOf(t, n) ==
    /\ \E i, j \in 0..Len(n) :
          /\ i + j <= Len(n)
          /\ t = SubSeq(n, i + 1, Len(n) - j)
          /\ \A k \in 1..i : IsSpace(n[k])
          /\ \A k \in (Len(n) - j + 1)..Len(n) : IsSpace(n[k])
    /\ t # <<>> => ~IsSpace(t[1]) /\ ~IsSpace(t[Len(t)])

\* the name a rename to n has to store
IsStoredNameOf(t, n) == IF IsTrimOf(<<>>, n) THEN t = DefaultName ELSE IsTrimOf(t, n)

Handlers == {dbq[i] : i \in 1..Len(dbq)} \cup {awaiting[i] : i \in 1..Len(awaiting)}

\* C15: a board-rename with a string name stores the trimmed name, or the
\* placeholder when nothing is left, and its fact carries the name it stored;
\* a board-rename whose name is not a string writes nothing and sends nothing
RenameStoresTrimmed ==
    /\ DbDid("board-rename") =>
          /\ IsStoredNameOf(store[last.m.boardId].name, last.m.name.v)
          /\ FactOf(awaiting[Len(awaiting)]).name = Str(store[last.m.boardId].name)
    /\ \A h \in Handlers : h.m.type = "board-rename" => h.m.name.t = "string"
    /\ \A f \in AllFacts : f.type = "board-renamed" => f.name.t = "string" /\ f.name # Str(NotStr.v)
    /\ last.k = "drop" /\ last.m.type = "board-rename" => last.m.name = NotStr

\* a name with spaces on both sides has been stored without them
RenameStoresTrimmedWitness ==
    /\ DbDid("board-rename")
    /\ last.m.name = Str(<<" ", "P", " ">>)
    /\ store[last.m.boardId].name = <<"P">>

-----------------------------------------------------------------------------
(* Rooms *)

\* C16: join-board by S makes S a member of the room and sends the presence
\* fact once to every other member and not to S; joining again leaves the
\* members as they were, and a later fact reaches every member, S included,
\* exactly once
JoinOnce ==
    /\ last.k = "join" =>
          /\ rooms["b1"] = last.room \cup {last.who}
          /\ \A r \in Sessions :
                Len(s2c[r]) - last.lens[r] = IF r \in last.room \ {last.who} THEN 1 ELSE 0
    /\ last.k = "emit" =>
          \A r \in Sessions : Len(s2c[r]) - last.lens[r] = IF r \in last.room THEN 1 ELSE 0

\* a socket that is already a member joins again, with another member present
JoinOnceWitness == last.k = "join" /\ last.who \in last.room /\ last.room # {last.who}

-----------------------------------------------------------------------------
(* Disconnecting *)

\* no fact is on its way to a disconnected socket, and every fact emitted
\* reaches each remaining member of the room once
GoneReceivesNothing ==
    /\ \A s \in Sessions \ online : s2c[s] = <<>> /\ \A b \in BoardIds : s \notin rooms[b]
    /\ last.k = "emit" =>
          \A r \in Sessions :
              Len(s2c[r]) - last.lens[r] = IF r \in last.room /\ r \in online THEN 1 ELSE 0

\* C17 as stated: after a socket has disconnected it receives no fact, and no
\* intent of it is applied to the store or broadcast
GoneIsSilent ==
    /\ GoneReceivesNothing
    /\ last.k \in {"db", "emit"} => last.who \in online

\* C17, amended: after a socket has disconnected it receives no fact and no
\* further intent of it reaches a handler; the intents the server had already
\* begun to handle are still applied and broadcast
GoneSendsNothing ==
    /\ GoneReceivesNothing
    /\ \A s \in Sessions \ online : c2s[s] = <<>>

\* a fact is emitted to A after B, a member until then, has disconnected
GoneSendsNothingWitness ==
    last.k = "emit" /\ "B" \notin online /\ "A" \in last.room /\ Len(s2c["A"]) > 0

-----------------------------------------------------------------------------
(* Deleted boards *)

\* C18: once the board is deleted, no intent addressed to it is applied and
\* no fact for it is sent to the sockets of its room
DeletedBoardIsDead ==
    ~Found("b1") =>
        /\ last.k = "db" => ~last.found /\ store["b1"] = Removed
        /\ last.k = "emit" => \A r \in Sessions : Len(s2c[r]) = last.lens[r]

-----------------------------------------------------------------------------
(* Order of write and fan-out inside a handler *)

\* C19: the fact of an intent is broadcast before the write of that intent
\* is made, so no fact is emitted by a handler whose write has already
\* completed
FanOutBeforeWrite ==
    last.k = "emit" => ~last.wrote

-----------------------------------------------------------------------------
(* Handlers in progress *)

\* the handlers that have started on an intent for board b and have not run
\* to their end: waiting for their write, or for their promise to resume them
InProgress(b) ==
    Cardinality({i \in 1..Len(dbq) : dbq[i].m.boardId = b})
        + Cardinality({i \in 1..Len(awaiting) : awaiting[i].m.boardId = b})

\* C20: the intents of a room are handled one after the other: at no time
\* are two intents for the same board in progress
OneAtATime ==
    \A b \in BoardIds : InProgress(b) <= 1

-----------------------------------------------------------------------------
(* Paint order *)

\* an entry with id x stands before an entry with id y
Before(list, x, y) ==
    \E i, j \in 1..Len(list) : i < j /\ IdOf(list[i]) = x /\ IdOf(list[j]) = y

SameOrder(pre, post) ==
    \A x, y \in Ids(pre) \cup Ids(post) : x # y => (Before(post, x, y) <=> Before(pre, x, y))

\* what a create, an update and a delete may do to the order of a list
OrderKept(type, pre, post, m) ==
    CASE type = "create" ->
            IF IdOf(m.shape) \in Ids(pre) THEN SameOrder(pre, post)
            ELSE post = Append(pre, m.shape)
      [] type = "update" ->
            /\ Len(post) = Len(pre)
            /\ \A i \in 1..Len(pre) : IdOf(pre[i]) # m.shapeId => post[i] = pre[i]
      [] type = "delete" ->
            /\ m.shapeId \notin Ids(post)
            /\ post = SelectSeq(pre, LAMBDA e : e \in {post[i] : i \in 1..Len(post)})

\* C21: in the stored list and in every client's list a create of a new id
\* appends, an update leaves every shape at its position, a create of an id
\* already present leaves the relative order of the shapes as it was, and a
\* delete removes the entry and keeps the order of the others
PaintOrder ==
    /\ DbDid("shape-create") => OrderKept("create", last.pre, TheBoard, last.m)
    /\ DbDid("shape-update") => OrderKept("update", last.pre, TheBoard, last.m)
    /\ DbDid("shape-delete") => OrderKept("delete", last.pre, TheBoard, last.m)
    /\ Applied("shape-created") => OrderKept("create", last.pre, shapes[last.who], last.m)
    /\ Applied("shape-updated") => OrderKept("update", last.pre, shapes[last.who], last.m)
    /\ Applied("shape-deleted") => OrderKept("delete", last.pre, shapes[last.who], last.m)

\* the part of C21 about the clients' lists
PaintOrderClient ==
    Applied("shape-created") => OrderKept("create", last.pre, shapes[last.who], last.m)

-----------------------------------------------------------------------------
(* What the autosave carries *)

\* C22: the list an autosave request carries is the stored list of the board
\* at the moment the request is issued
SnapshotFidelity ==
    last.k = "autosave" => last.body = TheBoard

\* C23: once a change of A's list has armed the autosave timeout, the request
\* for it is issued in the end, also when A leaves or the board is deleted
\* before the timeout is due
PendingWriteIssued ==
    (timers["A"] # {}) ~> (last.k = "autosave" /\ last.who = "A")

-----------------------------------------------------------------------------
(* Missing boards *)

-----------------------------------------------------------------------------
(* Shapes stay stored *)

\* C25: a shape that a shape-create has written to the store is in the
\* stored list as long as no shape-delete for its id has been applied and the
\* board exists
NoLostShapes ==
    Found("b1") => obs.made \subseteq Ids(TheBoard)

-----------------------------------------------------------------------------
(* Viewing *)

\* C26: the clients that only open the board and receive facts never change
\* the stored board: whatever their autosave requests carry, the store is
\* after each of them as it was before
ViewingDoesNotWrite ==
    [][last'.k = "put" => store' = store]_vars

-----------------------------------------------------------------------------
(* Dragging *)

\* the entries of a list with a given id
CopiesOf(list, id) == {list[i] : i \in {j \in 1..Len(list) : IdOf(list[j]) = id}}

\* C27: when a client has skipped a fact about the shape it was dragging, the
\* drag is over and every message is delivered, its copy of the shape equals
\* the copy of every other client of the room
DragKeepsFacts ==
    Quiescent /\ obs.skipped # {} /\ (\A c \in Sessions : ~drag[c].on) =>
        \A c, d \in rooms["b1"] : CopiesOf(shapes[c], "s1") = CopiesOf(shapes[d], "s1")

-----------------------------------------------------------------------------
(* Opening a board *)

\* C28: a client sends join-board only once its fetch has been answered, and
\* when it has joined and every message is delivered its list shows the
\* update that was applied to the board, whether before or after the fetch
\* read the store
NoFactMissed ==
    /\ \A i \in 1..Len(c2s["C"]) : c2s["C"][i].type = "join-board" => fetch["C"] = Fetched
    /\ Quiescent /\ "C" \in rooms["b1"] /\ sent > 0 =>
          /\ Holds(TheBoard, "s1", [x |-> 20])
          /\ "s1" \in Ids(shapes["C"])
          /\ Holds(shapes["C"], "s1", [x |-> 20])

-----------------------------------------------------------------------------
(* Identity under update *)

SameIds(pre, post) == Ids(post) = Ids(pre) /\ Len(post) = Len(pre)

\* C29: a shape-update, whatever its props, leaves the set of ids and the
\* number of shapes as they were, in the stored list and in a client's list
UpdateKeepsIds ==
    /\ DbDid("shape-update") => SameIds(last.pre, TheBoard)
    /\ Applied("shape-updated") => SameIds(last.pre, shapes[last.who])

=============================================================================
